---- MODULE Spec2Model ----
(***************************************************************************)
(* Row generation (lp_row_generation.hpp, bundled in                       *)
(* src/inc/WCPPaal/k_median.h): the loop row_generation and the three      *)
(* separation oracles add_max_violated, add_first_violated and             *)
(* add_first_violated composed with detail::random_rotate.                 *)
(*                                                                         *)
(* The external callables are the environment: solve_lp answers any        *)
(* status, get_candidates enumerates the candidate space 1..numC,          *)
(* how_violated(c) answers viol[c] (an exact test), add_violated(c) adds   *)
(* row c to the LP.                                                        *)
(***************************************************************************)
EXTENDS Integers, Sequences, FiniteSets, TLC

\* ---------------------------------------------------------------- bounds
NumCands == 3            \* size of the candidate space in the loop model
MaxLen == 4              \* longest candidate sequence in the oracle model
GenMod == 6              \* number of states of the random engine
MaxSolves == NumCands + 2 \* cap on solve_lp calls in one run

\* ------------------------------------------------------- values and types
OPTIMAL == "OPTIMAL"
INFEASIBLE == "INFEASIBLE"
UNBOUNDED == "UNBOUNDED"
Status == {OPTIMAL, INFEASIBLE, UNBOUNDED}

\* optional<Measure>: None is the empty optional, a measure is engaged
None == -1
Measures == {0, 2, 3, 7}
MeasureOpt == Measures \cup {None}

\* measures the loop model draws from (two engaged values and the empty one)
LoopMeasures == {0, 7}
LoopMeasureOpt == LoopMeasures \cup {None}

Kinds == {"max", "first", "random"}
Envs == {"free", "mono", "cut"}

VARIABLES
    kind,     \* which oracle is wired in as try_add_violated
    env,      \* how the violation measures evolve from solve to solve
    numC,     \* get_candidates() returns the candidates 1..numC
    pc,       \* position in row_generation: "solve", "test", "done", "thrown"
    res,      \* local variable res of row_generation
    ret,      \* value returned by row_generation ("none" before return)
    raised,   \* exception that left row_generation ("none" if none did)
    nSolve,   \* number of solve_lp calls made
    rows,     \* LP rows added by add_violated
    solved,   \* rows the last solve_lp call optimized over
    viol,     \* viol[c]: what how_violated(c) returns for the current LP solution
    gen,      \* state of the generator m_g owned by random_rotate
    seed,     \* state of the generator the oracle was constructed with
    offset,   \* last value drawn by random_rotate
    order,    \* scan order of the last oracle invocation
    calls,    \* how_violated / add_violated calls of the last oracle invocation
    oret,     \* result of the last oracle invocation ("none" before the first)
    trace     \* loop-level events: solve_lp, add_violated, try_add_violated

vars == <<kind, env, numC, pc, res, ret, raised, nSolve, rows, solved, viol,
          gen, seed, offset, order, calls, oret, trace>>

\* ----------------------------------------------------------- environment
GetCandidates(n) == [i \in 1..n |-> i]

HowViolated(v, c) == v[c]

HowCall(c) == [op |-> "how_violated", c |-> c]
AddCall(c) == [op |-> "add_violated", c |-> c]

SolveEv(st) == [op |-> "solve_lp", out |-> st]
AddEv == [op |-> "add_violated", out |-> "void"]
TryEv(b) == [op |-> "try_add_violated", out |-> IF b THEN "true" ELSE "false"]

\* measures the environment may report after a re-solve
EnvAllows(e, rs, old, new) ==
    CASE e = "free" -> TRUE
      [] e = "mono" -> \A c \in DOMAIN old : new[c] <= old[c]
      [] e = "cut"  -> /\ \A c \in DOMAIN old : new[c] <= old[c]
                       /\ \A c \in rs : new[c] = None

\* ------------------------------------------------------ utility functors
\* utils::less
Less(a, b) == a < b

\* utils::identity_functor
IdentityFunctor(cs) == cs

\* utils::rotate: left rotation by n
Rotate(cs, n) == SubSeq(cs, n + 1, Len(cs)) \o SubSeq(cs, 1, n)

\* the engine: a counter, its state is its output
EngineNext(g) == (g + 1) % GenMod

\* std::uniform_int_distribution<>(a, b) applied to engine output x
UniformInt(x, a, b) == a + (x % (b - a + 1))

\* optional / bool conversion used by `!how` and `if (how_violated(c))`
Engaged(how) == how # None

\* --------------------------------------------------------- row_generation
\* the oracle is asked whatever the status
CallsOracle_Always(st) == TRUE

\* left operand of && in the loop condition
CallsOracle(st) == st = OPTIMAL

\* the loop stops after an addition and repeats after none
LoopAgain_Inverted(left, found) == left /\ ~found

\* the loop repeats while the status is OPTIMAL, whatever the oracle found
LoopAgain_IgnoreFound(left, found) == left

\* whole loop condition: left operand && try_add_violated()
LoopAgain(left, found) == left /\ found

\* the status of the solve is dropped
ReturnValue_Optimal(r) == OPTIMAL

\* return res
ReturnValue(r) == r

\* the loop has no handler: an exception thrown by a callable leaves
\* row_generation as it was thrown, and the run is over
Propagate(e) == e

\* the loop goes back to solve_lp after a failed call
AfterThrowPc_Retry == "solve"

AfterThrowPc == "thrown"

\* ------------------------------------------------------- add_max_violated
NoMost == <<>>

\* a later candidate of equal measure replaces the current best
RECURSIVE MaxLoop_LastTie(_, _, _, _, _)
MaxLoop_LastTie(v, cs, i, most, cl) ==
    IF i > Len(cs) THEN [most |-> most, calls |-> cl]
    ELSE LET how == HowViolated(v, cs[i])
             cl1 == Append(cl, HowCall(cs[i]))
         IN  IF ~Engaged(how) THEN MaxLoop_LastTie(v, cs, i + 1, most, cl1)
             ELSE IF most = NoMost \/ ~Less(how, most[1])
                  THEN MaxLoop_LastTie(v, cs, i + 1, <<how, i>>, cl1)
                  ELSE MaxLoop_LastTie(v, cs, i + 1, most, cl1)

\* the scan stops one candidate short of the end
RECURSIVE MaxLoop_SkipLast(_, _, _, _, _)
MaxLoop_SkipLast(v, cs, i, most, cl) ==
    IF i >= Len(cs) THEN [most |-> most, calls |-> cl]
    ELSE LET how == HowViolated(v, cs[i])
             cl1 == Append(cl, HowCall(cs[i]))
         IN  IF ~Engaged(how) THEN MaxLoop_SkipLast(v, cs, i + 1, most, cl1)
             ELSE IF most = NoMost \/ Less(most[1], how)
                  THEN MaxLoop_SkipLast(v, cs, i + 1, <<how, i>>, cl1)
                  ELSE MaxLoop_SkipLast(v, cs, i + 1, most, cl1)

RECURSIVE MaxLoop(_, _, _, _, _)
MaxLoop(v, cs, i, most, cl) ==
    IF i > Len(cs) THEN [most |-> most, calls |-> cl]
    ELSE LET how == HowViolated(v, cs[i])
             cl1 == Append(cl, HowCall(cs[i]))
         IN  IF ~Engaged(how) THEN MaxLoop(v, cs, i + 1, most, cl1)
             ELSE IF most = NoMost \/ Less(most[1], how)
                  THEN MaxLoop(v, cs, i + 1, <<how, i>>, cl1)
                  ELSE MaxLoop(v, cs, i + 1, most, cl1)

\* an empty `most` is reported as a success
AddMaxViolated_ReturnsTrue(v, cs) ==
    LET r == MaxLoop(v, cs, 1, NoMost, <<>>)
    IN  IF r.most = NoMost
        THEN [ret |-> TRUE, calls |-> r.calls]
        ELSE [ret |-> TRUE, calls |-> Append(r.calls, AddCall(cs[r.most[2]]))]

AddMaxViolated(v, cs) ==
    LET r == MaxLoop(v, cs, 1, NoMost, <<>>)
    IN  IF r.most = NoMost
        THEN [ret |-> FALSE, calls |-> r.calls]
        ELSE [ret |-> TRUE, calls |-> Append(r.calls, AddCall(cs[r.most[2]]))]

\* ----------------------------------------------------- add_first_violated
\* the scan does not return after add_violated
RECURSIVE FirstLoop_NoReturn(_, _, _, _)
FirstLoop_NoReturn(v, reordered, i, cl) ==
    IF i > Len(reordered)
    THEN [ret |-> \E j \in DOMAIN cl : cl[j].op = "add_violated", calls |-> cl]
    ELSE LET c == reordered[i]
             cl1 == Append(cl, HowCall(c))
         IN  IF Engaged(HowViolated(v, c))
             THEN FirstLoop_NoReturn(v, reordered, i + 1, Append(cl1, AddCall(c)))
             ELSE FirstLoop_NoReturn(v, reordered, i + 1, cl1)

RECURSIVE FirstLoop(_, _, _, _)
FirstLoop(v, reordered, i, cl) ==
    IF i > Len(reordered) THEN [ret |-> FALSE, calls |-> cl]
    ELSE LET c == reordered[i]
             cl1 == Append(cl, HowCall(c))
         IN  IF Engaged(HowViolated(v, c))
             THEN [ret |-> TRUE, calls |-> Append(cl1, AddCall(c))]
             ELSE FirstLoop(v, reordered, i + 1, cl1)

\* the scan starts at the second candidate
AddFirstViolated_FromSecond(v, reordered) == FirstLoop(v, reordered, 2, <<>>)

AddFirstViolated(v, reordered) == FirstLoop(v, reordered, 1, <<>>)

\* ---------------------------------------------------------- random_rotate
\* every draw is made from a freshly constructed generator
RandomDraw_Fresh(g, cs) == UniformInt(0, 0, Len(cs))

RandomDraw(g, cs) == UniformInt(g, 0, Len(cs))

\* the rotated range is dropped and the candidates are scanned as enumerated
RandomRotate_Unrotated(g, cs) == cs

\* only the part from the offset to the end is kept
RandomRotate_TailOnly(g, cs) == SubSeq(cs, RandomDraw(g, cs) + 1, Len(cs))

RandomRotate(g, cs) == Rotate(cs, RandomDraw(g, cs))

\* ------------------------------------------------------------ bookkeeping
IsAdd(e) == e.op = "add_violated"
IsHow(e) == e.op = "how_violated"

AddCalls(cl) == SelectSeq(cl, IsAdd)
HowCalls(cl) == SelectSeq(cl, IsHow)

AddedRows(cl) == {cl[i].c : i \in {j \in DOMAIN cl : IsAdd(cl[j])}}

LoopEvents(r) == [i \in 1..Len(AddCalls(r.calls)) |-> AddEv] \o <<TryEv(r.ret)>>

\* -------------------------------------------------------------- the model
Init ==
    /\ kind \in Kinds
    /\ env \in Envs
    /\ numC \in 0..NumCands
    /\ pc = "solve"
    /\ res = "none"
    /\ ret = "none"
    /\ raised = "none"
    /\ nSolve = 0
    /\ rows = {}
    /\ solved = {}
    /\ viol = [c \in 1..numC |-> None]
    /\ gen \in IF kind = "random" THEN 0..(GenMod - 1) ELSE {0}
    /\ seed = gen
    /\ offset = 0
    /\ order = <<>>
    /\ calls = <<>>
    /\ oret = "none"
    /\ trace = <<>>

\* do res = solve_lp();
SolveLp ==
    /\ pc = "solve"
    /\ nSolve < MaxSolves
    /\ \E st \in Status :
         /\ res' = st
         /\ trace' = Append(trace, SolveEv(st))
         /\ IF st = OPTIMAL
            THEN \E v \in [1..numC -> LoopMeasureOpt] :
                    /\ nSolve > 0 => EnvAllows(env, rows, viol, v)
                    /\ viol' = v
            ELSE viol' = viol
    /\ nSolve' = nSolve + 1
    /\ solved' = rows
    /\ pc' = "test"
    /\ UNCHANGED <<kind, env, numC, ret, raised, rows, gen, seed, offset, order,
                   calls, oret>>

\* while (res == OPTIMAL && ...) is false on its left operand; return res
ReturnStatus ==
    /\ pc = "test"
    /\ ~CallsOracle(res)
    /\ pc' = "done"
    /\ ret' = ReturnValue(res)
    /\ UNCHANGED <<kind, env, numC, res, raised, nSolve, rows, solved, viol,
                   gen, seed, offset, order, calls, oret, trace>>

\* the loop's use of the oracle's result r: loop again or return res
AfterOracle(r) ==
    /\ calls' = r.calls
    /\ oret' = IF r.ret THEN "true" ELSE "false"
    /\ rows' = rows \cup AddedRows(r.calls)
    /\ trace' = trace \o LoopEvents(r)
    /\ IF LoopAgain(CallsOracle(res), r.ret)
       THEN pc' = "solve" /\ ret' = ret
       ELSE pc' = "done" /\ ret' = ReturnValue(res)
    /\ UNCHANGED <<kind, env, numC, res, raised, nSolve, solved, viol, seed>>

\* try_add_violated() is add_max_violated::operator()
InvokeMax ==
    /\ pc = "test"
    /\ CallsOracle(res)
    /\ kind = "max"
    /\ LET cands == GetCandidates(numC)
       IN  /\ order' = cands
           /\ AfterOracle(AddMaxViolated(viol, cands))
    /\ UNCHANGED <<gen, offset>>

\* try_add_violated() is add_first_violated::operator() with identity_functor
InvokeFirst ==
    /\ pc = "test"
    /\ CallsOracle(res)
    /\ kind = "first"
    /\ LET cands == GetCandidates(numC)
           reordered == IdentityFunctor(cands)
       IN  /\ order' = reordered
           /\ AfterOracle(AddFirstViolated(viol, reordered))
    /\ UNCHANGED <<gen, offset>>

\* try_add_violated() is add_first_violated::operator() with random_rotate
InvokeRandom ==
    /\ pc = "test"
    /\ CallsOracle(res)
    /\ kind = "random"
    /\ LET cands == GetCandidates(numC)
           reordered == RandomRotate(gen, cands)
       IN  /\ offset' = RandomDraw(gen, cands)
           /\ gen' = EngineNext(gen)
           /\ order' = reordered
           /\ AfterOracle(AddFirstViolated(viol, reordered))

Next ==
    \/ SolveLp
    \/ ReturnStatus
    \/ InvokeMax
    \/ InvokeFirst
    \/ InvokeRandom

Spec == Init /\ [][Next]_vars

\* ------------------------------------------------- callables that throw
Exceptions == {"E1", "E2"}

ThrowEv(op, e) == [op |-> op, out |-> e]

\* solve_lp() throws e
SolveLpThrows ==
    /\ pc = "solve"
    /\ nSolve < MaxSolves
    /\ \E e \in Exceptions :
         /\ trace' = Append(trace, ThrowEv("solve_lp", e))
         /\ raised' = Propagate(e)
    /\ nSolve' = nSolve + 1
    /\ pc' = AfterThrowPc
    /\ UNCHANGED <<kind, env, numC, res, ret, rows, solved, viol, gen, seed,
                   offset, order, calls, oret>>

\* what the wired oracle does when no callable throws
OracleRun(k, g, v, cands) ==
    CASE k = "max"    -> AddMaxViolated(v, cands)
      [] k = "first"  -> AddFirstViolated(v, IdentityFunctor(cands))
      [] k = "random" -> AddFirstViolated(v, RandomRotate(g, cands))

\* try_add_violated() throws e: get_candidates throws (p = 0), or the p-th
\* how_violated / add_violated call of the invocation throws; an
\* add_violated call that throws may or may not have added its row
OracleThrows ==
    /\ pc = "test"
    /\ CallsOracle(res)
    /\ LET cands == GetCandidates(numC)
           r == OracleRun(kind, gen, viol, cands)
       IN  \E p \in 0..Len(r.calls), e \in Exceptions :
             LET made == SubSeq(r.calls, 1, p)
                 reordered == (kind = "random" /\ p > 0)
             IN  /\ calls' = made
                 /\ order' = IF p = 0 THEN <<>>
                             ELSE IF kind = "random"
                                  THEN RandomRotate(gen, cands) ELSE cands
                 /\ offset' = IF reordered THEN RandomDraw(gen, cands) ELSE offset
                 /\ gen' = IF reordered THEN EngineNext(gen) ELSE gen
                 /\ \/ rows' = rows
                    \/ rows' = rows \cup AddedRows(made)
                 /\ trace' = trace
                               \o [i \in 1..Len(AddCalls(made)) |-> AddEv]
                               \o <<ThrowEv("try_add_violated", e)>>
                 /\ raised' = Propagate(e)
    /\ oret' = "throw"
    /\ pc' = AfterThrowPc
    /\ UNCHANGED <<kind, env, numC, res, ret, nSolve, solved, viol, seed>>

ThrowNext ==
    \/ SolveLp
    \/ ReturnStatus
    \/ InvokeMax
    \/ InvokeFirst
    \/ InvokeRandom
    \/ SolveLpThrows
    \/ OracleThrows

ThrowSpec == Init /\ [][ThrowNext]_vars

\* ------------------------------------------- one oracle invocation, alone
\* the state after a first solve_lp() that returned OPTIMAL, for every
\* candidate sequence up to MaxLen and every assignment of measures
OracleInit ==
    /\ kind \in Kinds
    /\ env = "free"
    /\ numC \in 0..MaxLen
    /\ pc = "test"
    /\ res = OPTIMAL
    /\ ret = "none"
    /\ raised = "none"
    /\ nSolve = 1
    /\ rows = {}
    /\ solved = {}
    /\ viol \in [1..numC -> MeasureOpt]
    /\ gen \in IF kind = "random" THEN 0..(GenMod - 1) ELSE {0}
    /\ seed = gen
    /\ offset = 0
    /\ order = <<>>
    /\ calls = <<>>
    /\ oret = "none"
    /\ trace = <<SolveEv(OPTIMAL)>>

OracleNext ==
    \/ InvokeMax
    \/ InvokeFirst
    \/ InvokeRandom

OracleSpec == OracleInit /\ [][OracleNext]_vars

\* -------------------------------------------------- the loop, scheduled
\* every callable returns, so the loop always takes its next step
FairSpec == Init /\ [][Next]_vars /\ WF_vars(Next)

\* ======================================================= properties
SolveIdx == {i \in DOMAIN trace : trace[i].op = "solve_lp"}
AddIdx == {i \in DOMAIN trace : trace[i].op = "add_violated"}
TryIdx == {i \in DOMAIN trace : trace[i].op = "try_add_violated"}
LastSolve == CHOOSE i \in SolveIdx : \A j \in SolveIdx : j <= i

\* the oracle has been invoked and viol is still what that invocation saw
Invoked == oret # "none" /\ pc # "test"

Violated == {c \in 1..numC : viol[c] # None}

\* C1: when row_generation has returned, solve_lp has been called at least
\* once and the returned status is the status of the last solve_lp call.
C1_ReturnsLastSolve ==
    pc = "done" => /\ SolveIdx # {}
                   /\ ret = trace[LastSolve].out

C1_Witness ==
    /\ pc = "done"
    /\ Cardinality(SolveIdx) >= 2
    /\ ret = UNBOUNDED

\* C2: a solve_lp call that returned a status other than OPTIMAL is the last
\* call of the run: no try_add_violated, add_violated or solve_lp follows it,
\* control is at the return, and the status returned is that status.
C2_ShortCircuit ==
    \A i \in SolveIdx :
        trace[i].out # OPTIMAL =>
            /\ i = Len(trace)
            /\ pc \in {"test", "done"}
            /\ pc = "done" => ret = trace[i].out

\* C2 (the stated instance): a first solve that is INFEASIBLE is returned
\* with no oracle invocation
C2_Witness ==
    /\ pc = "done"
    /\ trace = <<SolveEv(INFEASIBLE)>>
    /\ ret = INFEASIBLE
    /\ oret = "none"

\* C3: when row_generation wired to the max-violated or the first-violated
\* oracle returns OPTIMAL, the last oracle invocation returned false, and no
\* candidate of get_candidates() is violated for the rows present at return.
C3_OptimalMeansNoneViolated ==
    (pc = "done" /\ ret = OPTIMAL /\ kind \in {"max", "first"}) =>
        /\ oret = "false"
        /\ trace[Len(trace)] = TryEv(FALSE)
        /\ rows = solved
        /\ Violated = {}

C3_Witness ==
    /\ pc = "done"
    /\ ret = OPTIMAL
    /\ kind = "max"
    /\ numC = NumCands
    /\ Cardinality(rows) >= 2
    /\ oret = "false"

\* C4: every add_violated call directly follows a solve_lp call that returned
\* OPTIMAL and is followed by the return (true) of the oracle invocation it
\* belongs to; between two successive add_violated calls there is exactly one
\* solve_lp call.
C4_Alternation ==
    /\ \A i \in AddIdx :
          /\ i > 1
          /\ trace[i - 1] = SolveEv(OPTIMAL)
          /\ i < Len(trace)
          /\ trace[i + 1] = TryEv(TRUE)
    /\ \A i, j \in AddIdx :
          (i < j /\ \A m \in AddIdx : ~(i < m /\ m < j)) =>
              Cardinality({k \in SolveIdx : i < k /\ k < j}) = 1

C4_Witness ==
    /\ kind = "random"
    /\ Cardinality(AddIdx) >= 3
    /\ pc = "done"

\* C5: one oracle invocation calls add_violated at most once; it returns true
\* exactly when it called it once and false exactly when it did not call it,
\* and an invocation that returns false leaves the LP rows as they were.
C5_AtMostOneAddition ==
    oret # "none" =>
        /\ Len(AddCalls(calls)) <= 1
        /\ oret = "true" <=> Len(AddCalls(calls)) = 1
        /\ oret = "false" <=> Len(AddCalls(calls)) = 0
        /\ oret = "false" => rows = solved
        /\ (oret = "true" /\ pc # "test") => rows = solved \cup AddedRows(calls)

C5_Witness ==
    /\ kind = "first"
    /\ oret = "true"
    /\ pc = "solve"
    /\ Cardinality(Violated) >= 2
    /\ Len(AddCalls(calls)) = 1

\* positions of the scan order holding a violated candidate
ViolatedPos == {i \in DOMAIN order : viol[order[i]] # None}

\* the position holding the greatest measure, the earliest one among equals
BestPos ==
    CHOOSE i \in ViolatedPos :
        \A j \in ViolatedPos :
            \/ viol[order[j]] < viol[order[i]]
            \/ viol[order[j]] = viol[order[i]] /\ i <= j

FirstPos == CHOOSE i \in ViolatedPos : \A j \in ViolatedPos : i <= j

\* C6: when some candidate is violated, the max-violated oracle commits the
\* violated candidate of greatest measure under less-than, and among the
\* candidates tied for the greatest measure the first one enumerated.
C6_MaxCommitsFirstGreatest ==
    (kind = "max" /\ Invoked /\ Violated # {}) =>
        /\ order = GetCandidates(numC)
        /\ AddCalls(calls) = <<AddCall(order[BestPos])>>

\* measures [3, 7, 2, 7]: the second candidate (index 1 counting from 0)
C6_Witness ==
    /\ kind = "max"
    /\ Invoked
    /\ viol = <<3, 7, 2, 7>>
    /\ AddCalls(calls) = <<AddCall(2)>>

\* C7: the first-violated oracle scans in the order produced by
\* reorder_candidates (the identity by default); when the first violated
\* candidate of that order is at position k, the invocation is k
\* how_violated calls, on positions 1..k, and then add_violated on position k.
C7_FirstShortCircuit ==
    (kind \in {"first", "random"} /\ Invoked) =>
        /\ kind = "first" => order = GetCandidates(numC)
        /\ ViolatedPos # {} =>
              /\ Len(HowCalls(calls)) = FirstPos
              /\ calls = [i \in 1..FirstPos |-> HowCall(order[i])]
                            \o <<AddCall(order[FirstPos])>>

\* [ok, ok, violated, violated]: three how_violated calls, third committed
C7_Witness ==
    /\ kind = "first"
    /\ Invoked
    /\ viol = <<None, None, 7, 3>>
    /\ Len(HowCalls(calls)) = 3
    /\ calls[4] = AddCall(3)

\* C8: an invocation of the max-violated or the first-violated oracle that
\* returns false saw no violated candidate; if one is violated it returns
\* true.
C8_NoFalseNegative ==
    (kind \in {"max", "first"} /\ Invoked) =>
        /\ oret = "false" => \A c \in 1..numC : HowViolated(viol, c) = None
        /\ (\E c \in 1..numC : HowViolated(viol, c) # None) => oret = "true"

C8_Witness ==
    /\ kind = "max"
    /\ Invoked
    /\ numC = MaxLen
    /\ oret = "false"

\* C9 as stated: with measures that never increase from one solve to the
\* next, a run makes at most (number of candidates + 1) solve_lp calls.
C9_Original == env = "mono" => nSolve <= numC + 1

\* C9 amended: when moreover a candidate whose row has been added is never
\* reported violated again, a run makes at most (number of candidates + 1)
\* solve_lp calls and returns.
C9_Terminates ==
    /\ [](env = "cut" => nSolve <= numC + 1)
    /\ (env = "cut") ~> (pc = "done")

C9_Witness ==
    /\ env = "cut"
    /\ pc = "done"
    /\ numC = NumCands
    /\ nSolve = numC + 1
    /\ rows = 1..numC
    /\ ret = OPTIMAL

\* C10: on an empty candidate sequence every oracle returns false without a
\* how_violated or add_violated call; the offset drawn by the random-violated
\* oracle is 0 and the rotated sequence is the empty sequence.
C10_EmptyCandidates ==
    (numC = 0 /\ oret # "none") =>
        /\ oret = "false"
        /\ calls = <<>>
        /\ rows = {}
        /\ offset = 0
        /\ order = GetCandidates(numC)

C10_Witness ==
    /\ numC = 0
    /\ kind = "random"
    /\ oret = "false"
    /\ pc = "done"
    /\ gen = 3

TrueTryIdx == {i \in TryIdx : trace[i] = TryEv(TRUE)}

\* C11: at return the number of solve_lp calls is the number of
\* try_add_violated calls that returned true plus one; a run that returns
\* OPTIMAL after k additions made k + 1 solve_lp calls, all OPTIMAL, and
\* k + 1 try_add_violated calls, the first k true and the last one false.
C11_SolvesAreAdditionsPlusOne ==
    pc = "done" =>
        /\ Cardinality(SolveIdx) = Cardinality(TrueTryIdx) + 1
        /\ Cardinality(AddIdx) = Cardinality(TrueTryIdx)
        /\ ret = OPTIMAL =>
              /\ Cardinality(TryIdx) = Cardinality(SolveIdx)
              /\ \A i \in SolveIdx : trace[i] = SolveEv(OPTIMAL)
              /\ \A i \in TryIdx : trace[i] = TryEv(TRUE) <=> i < Len(trace)
              /\ trace[Len(trace)] = TryEv(FALSE)

\* three additions, four solves, OPTIMAL
C11_Witness ==
    /\ pc = "done"
    /\ ret = OPTIMAL
    /\ Cardinality(AddIdx) = 3
    /\ Cardinality(SolveIdx) = 4
    /\ Cardinality(TryIdx) = 4

\* C16: one invocation of the max-violated oracle calls how_violated exactly
\* once on every candidate, in enumeration order, whether or not a violated
\* candidate was already seen; its add_violated call, if any, comes after
\* the how_violated call on the last candidate.
C16_MaxFullPass ==
    (kind = "max" /\ oret # "none") =>
        /\ HowCalls(calls) = [i \in 1..numC |-> HowCall(GetCandidates(numC)[i])]
        /\ SubSeq(calls, 1, numC) = HowCalls(calls)
        /\ Len(calls) <= numC + 1
        /\ \A i \in DOMAIN calls : IsAdd(calls[i]) => i = numC + 1

\* the first candidate is violated and the scan still visits the other three
C16_Witness ==
    /\ kind = "max"
    /\ Invoked
    /\ viol = <<7, None, 3, None>>
    /\ Len(HowCalls(calls)) = 4
    /\ calls[5] = AddCall(1)

\* C18: when row_generation has returned a status, no add_violated call
\* follows the last solve_lp call, and the LP rows are the rows that solve
\* optimized over, whatever the status.
C18_NoAdditionAfterLastSolve ==
    pc = "done" =>
        /\ \A i \in AddIdx : i < LastSolve
        /\ rows = solved

C18_Witness ==
    /\ pc = "done"
    /\ ret = INFEASIBLE
    /\ Cardinality(rows) >= 2
    /\ rows = solved

\* the candidates in cyclic order from 0-based index r, wrapping after n - 1
CyclicFrom(cs, r) ==
    [i \in 1..Len(cs) |-> cs[((r + i - 1) % Len(cs)) + 1]]

\* C13: an invocation of the random-violated oracle over n candidates draws
\* one offset r in 0..n, scans the candidates in the cyclic order that starts
\* at original index r (index n is index 0 again), and commits the first
\* violated candidate of that order.
C13_RandomRotatedScan ==
    (kind = "random" /\ Invoked) =>
        /\ offset \in 0..numC
        /\ order = CyclicFrom(GetCandidates(numC), offset)
        /\ ViolatedPos # {} =>
              AddCalls(calls) = <<AddCall(order[FirstPos])>>
        /\ ViolatedPos = {} => AddCalls(calls) = <<>>

\* offset 2 of 4: the scan order is 3, 4, 1, 2 and candidate 4 is committed
\* although candidate 1 is violated too
C13_Witness ==
    /\ kind = "random"
    /\ Invoked
    /\ numC = 4
    /\ offset = 2
    /\ viol = <<7, None, None, 3>>
    /\ order = <<3, 4, 1, 2>>
    /\ AddCalls(calls) = <<AddCall(4)>>

IsPermutation(s, t) ==
    /\ Len(s) = Len(t)
    /\ \A x \in {t[i] : i \in DOMAIN t} :
          Cardinality({i \in DOMAIN s : s[i] = x})
              = Cardinality({i \in DOMAIN t : t[i] = x})
    /\ {s[i] : i \in DOMAIN s} = {t[i] : i \in DOMAIN t}

\* C17: for every offset the random-violated oracle can draw, the offset
\* equal to the length included, the scan order is a permutation of the
\* candidates; the oracle returns what the first-violated oracle with the
\* identity reordering returns on the same candidates and measures, true iff
\* some candidate is violated; a scan that finds no violation evaluates every
\* candidate exactly once.
C17_RandomSameAnswerAsFirst ==
    (kind = "random" /\ Invoked) =>
        LET cands == GetCandidates(numC)
            plain == AddFirstViolated(viol, IdentityFunctor(cands))
        IN  /\ IsPermutation(order, cands)
            /\ (oret = "true") = plain.ret
            /\ (oret = "true") = (Violated # {})
            /\ oret = "false" =>
                  \A c \in 1..numC :
                      Cardinality({i \in DOMAIN calls : calls[i] = HowCall(c)}) = 1

\* the offset equal to the length, with a violation only at the last candidate
C17_Witness ==
    /\ kind = "random"
    /\ Invoked
    /\ numC = 4
    /\ offset = numC
    /\ viol = <<None, None, None, 0>>
    /\ oret = "true"

\* the offsets for which candidate c is the first element of the scan order
StartOffsets(cs, c) ==
    {RandomDraw(g, cs) :
        g \in {x \in 0..(GenMod - 1) : RandomRotate(x, cs)[1] = c}}

\* C14: over the offsets the random-violated oracle draws from, every one of
\* the n >= 1 candidates is the first element of the rotated scan order for
\* the same number of offsets.
C14_UniformStart ==
    (kind = "random" /\ Invoked /\ numC >= 1) =>
        LET cands == GetCandidates(numC)
        IN  \A c1, c2 \in 1..numC :
                Cardinality(StartOffsets(cands, c1))
                    = Cardinality(StartOffsets(cands, c2))

\* the i-th output of an engine constructed in state s
Stream(s, i) == (s + i - 1) % GenMod

\* C15: the rotation offset, the scan order and the committed candidate of
\* the i-th invocation of a random-violated oracle are determined by the
\* state its generator was constructed with, by i and by the candidates and
\* their measures: the i-th invocation uses the i-th draw of the generator's
\* stream, and after i invocations the owned generator has advanced i times.
C15_StreamConsumedInOrder ==
    kind = "random" =>
        LET i == Cardinality(TryIdx)
            cands == GetCandidates(numC)
            r == UniformInt(Stream(seed, i), 0, numC)
        IN  /\ gen = Stream(seed, i + 1)
            /\ (oret # "none") =>
                  /\ offset = r
                  /\ order = Rotate(cands, r)
            /\ Invoked =>
                  calls = AddFirstViolated(viol, Rotate(cands, r)).calls

\* the third invocation of an oracle constructed with generator state 4
\* draws from the third output, 0, and not from the first, 4
C15_Witness ==
    /\ kind = "random"
    /\ numC = 3
    /\ seed = 4
    /\ Cardinality(TryIdx) = 3
    /\ Invoked
    /\ offset = 0
    /\ gen = 1

ThrowIdx == {i \in DOMAIN trace : trace[i].out \in Exceptions}

\* C12: a solve_lp or try_add_violated call that throws is the last call of
\* the run: the exception reaches the caller of row_generation unchanged, no
\* status is returned, and neither callable is called again.
C12_FailurePropagates ==
    /\ \A i \in ThrowIdx :
          /\ i = Len(trace)
          /\ pc = "thrown"
          /\ raised = trace[i].out
          /\ ret = "none"
    /\ pc = "thrown" => ThrowIdx # {}
    /\ raised # "none" => ThrowIdx # {}
    /\ pc = "done" => ThrowIdx = {} /\ raised = "none"

\* after two additions, the third oracle invocation throws E2
C12_Witness ==
    /\ pc = "thrown"
    /\ raised = "E2"
    /\ ret = "none"
    /\ Cardinality(TrueTryIdx) = 2
    /\ trace[Len(trace)] = ThrowEv("try_add_violated", "E2")

====
